---- MODULE Spec2Model ----
(***************************************************************************)
(* A model of the NoUI micro-framework (src/noui.js):                      *)
(*   - the component registry, the custom-element attach hook, the         *)
(*     _rendered flag, scanComponents, handleMutations and renderPage;     *)
(*   - the reactive cell made by NoUI.createState;                         *)
(*   - the store made by createStore, with its middleware chain.           *)
(* Each part has its own specification: Spec (registry and document),     *)
(* SpecCounter (the README's counter component in a page), SpecCell (one   *)
(* cell), SpecStore (one store under every middleware chain), SpecRounds   *)
(* (one store whose listeners unsubscribe during a round), SpecPersist     *)
(* (the store of components.js over several page loads), SpecSnapshot (one *)
(* store and the state objects its readers keep), SpecUnsubscribe (one     *)
(* cell and one store), SpecLive (an initialised page in use, with the     *)
(* observer's deliveries made), SpecDemo (the actions of the store of      *)
(* components.js), SpecVariant (the store beside the createStore without   *)
(* middlewares), SpecReentrant (listeners that call setState or assign the *)
(* cell), SpecNested (a component whose markup holds an element of a       *)
(* registered tag) and SpecPage (the contact page of components.js and     *)
(* the callbacks its renders subscribe).  The variables of the other parts *)
(* stay at their initial values.                                           *)
(***************************************************************************)
EXTENDS Integers, Sequences, FiniteSets, TLC

\* ------------------------------------------------------------------ bounds
MaxNodes == 2
MaxPages == 2
MaxQueue == 1
MaxListeners == 2
MaxVal == 2
MaxChain == 2
MaxDeferred == 1
MaxClicks == 2
MaxHeld == 2
MaxCount == 2

\* ------------------------------------------------------- registry: inputs
\* Names handed to registerComponent; "NO-A" differs from "no-a" by case only.
Names == {"no-a", "NO-A", "no-b"}
Tags == {"no-a", "no-b"}
\* Component objects (render functions) that can be registered.
Comps == {"c1", "c2"}
Nodes == 1..MaxNodes
\* What a page component writes into #app: the registered-tag elements of
\* its markup, in document order (HomeComponent and the like).
PageTemplates == {<<>>, <<"no-a">>, <<"no-a", "no-b">>}

VARIABLES
  components,   \* NoUI.components: sequence of [name, comp], insertion order
  defined,      \* customElements: tag -> component captured by the class
  place,        \* node -> "none" (not created) | "app" | "body" | "gone"
  tagOf,        \* node -> tag name of the element
  rendered,     \* set of nodes whose _rendered flag is true
  log,          \* node -> sequence of [via, comp]: the render calls on it
  records,      \* MutationObserver queue: per record, 1 if it has addedNodes, else 0
  observing,    \* observer.observe has been called
  initDone,     \* NoUI.init has run past its await
  appExists,    \* document.querySelector("#app") finds an element
  pages,        \* number of renderPage calls so far (bounded)
  lastOp,       \* name of the operation that produced this state
  scanRenders,  \* render calls made by each scan of the last operation
  batch,        \* the records handed to the last handleMutations call
  threw,        \* the last operation ended by throwing
  shown,        \* node -> the count its markup shows ("Count: k"), -1 if none
  clicks,       \* node -> number of clicks made on its increment button
  subscribers   \* the callbacks that renders have subscribed and that are
                \* still subscribed, in insertion order, each named by the
                \* node whose render made it (0 for #app): lang is
                \* noUI.translationSubscribers, store the listeners of
                \* useGlobalStore

regVars == <<components, defined, place, tagOf, rendered, log, records,
             observing, initDone, appExists, pages, lastOp, scanRenders, batch, threw,
             shown, clicks, subscribers>>

VARIABLES
  cellValue,     \* createState: value
  cellListeners, \* createState: listeners, a Set in insertion order
  cellKind,      \* listener -> what its callback does (kind, target)
  cellOp,        \* the last operation on the cell
  cellPrev,      \* the value before the last operation
  cellArg,       \* the value the last assignment assigned, or the listener
                 \* whose unsubscribe function the last operation called
  cellCalls,     \* listener calls of the last operation: [l, arg, round]
  cellRounds     \* listeners.forEach rounds of the last operation

cellVars == <<cellValue, cellListeners, cellKind, cellOp, cellPrev, cellArg,
              cellCalls, cellRounds>>

VARIABLES
  storeState,     \* createStore: state
  storeListeners, \* createStore: listeners, a Set in insertion order
  storeKind,      \* listener -> what its callback does (kind, target)
  middlewares,    \* createStore: the middlewares argument
  persisted,      \* localStorage item "noUIState" (NoItem when absent)
  deferred,       \* pending asynchronous callbacks of middlewares, each
                  \* holding the locals of the setState call that made it
  storeHist,      \* what the last operation on the store did
  heap,           \* object -> its keys and values now: object 0 is the one
                  \* the store's state refers to, the others are earlier
                  \* state objects that a reader still holds
  held            \* the snapshots readers hold: [ref, seen], the object
                  \* and the keys and values it had when it was obtained

storeVars == <<storeState, storeListeners, storeKind, middlewares, persisted,
               deferred, storeHist, heap, held>>

vars == <<regVars, cellVars, storeVars>>

\* String.prototype.toLowerCase on the names of the model.
ToLowerCase(name) == IF name = "NO-A" THEN "no-a" ELSE name

\* Map.prototype.set: an existing key keeps its position, a new one is appended.
MapSet(m, k, v) ==
  IF \E i \in 1..Len(m) : m[i].name = k
  THEN [i \in 1..Len(m) |-> IF m[i].name = k THEN [name |-> k, comp |-> v] ELSE m[i]]
  ELSE Append(m, [name |-> k, comp |-> v])

MapHas(m, k) == \E i \in 1..Len(m) : m[i].name = k

\* The place of the children that the render of node n wrote into it.
Within(n) == "in" \o ToString(n)

\* The node is connected: it is under body or #app, or a child of a
\* connected node.
RECURSIVE InDoc(_, _)
InDoc(pl, n) ==
  \/ pl[n] \in {"app", "body"}
  \/ \E m \in Nodes \ {n} : pl[n] = Within(m) /\ InDoc(pl, m)

\* The DOM and registry state threaded through the operators below.
Dom == [place |-> place, tagOf |-> tagOf, rendered |-> rendered, log |-> log,
        records |-> records, obs |-> observing, renders |-> <<>>,
        shown |-> shown, clicks |-> clicks, defs |-> defined, short |-> FALSE,
        subs |-> subscribers]

\* An observer that records nothing.
Queue_Never(d, added) == d

\* A mutation record is queued only while the observer observes.
Queue(d, added) ==
  IF d.obs THEN [d EXCEPT !.records = Append(@, added)] ELSE d

\* The children of the nodes ns.
Children(pl, ns) == {m \in Nodes : \E n \in ns : pl[m] = Within(n)}

\* The nodes ns leave the document for good, their children with them;
\* nothing refers to them any more, so their fields are dropped.
Discard(d, ns) ==
  LET all == ns \cup Children(d.place, ns)
  IN [d EXCEPT !.place = [n \in Nodes |-> IF n \in all THEN "gone" ELSE @[n]],
               !.tagOf = [n \in Nodes |-> IF n \in all THEN "none" ELSE @[n]],
               !.log = [n \in Nodes |-> IF n \in all THEN <<>> ELSE @[n]],
               !.shown = [n \in Nodes |-> IF n \in all THEN -1 ELSE @[n]],
               !.clicks = [n \in Nodes |-> IF n \in all THEN 0 ELSE @[n]],
               !.rendered = @ \ all]

\* The created-but-unused node identities, and the next one to hand out.
Fresh(pl) == {n \in Nodes : pl[n] = "none"}
NextFresh(pl) == CHOOSE n \in Fresh(pl) : \A m \in Fresh(pl) : n <= m

RECURSIVE Render(_, _, _, _)
RECURSIVE ConnectedCallback(_, _, _)

\* component.render(el) of a component whose markup holds a <no-a>
\* element: el.innerHTML = "<no-a></no-a>" removes the child written by
\* an earlier render and creates a new one, which is connected at once;
\* one childList record is queued.  The new child takes the identity of
\* the one it replaces, with none of its fields; short says that the
\* model has no identity left for a first child.
RenderNested(d, n) ==
  LET kids == Children(d.place, {n})
      d1 == Discard(d, kids)
      free == IF kids # {} THEN kids ELSE Fresh(d.place)
      child == CHOOSE x \in free : \A y \in free : x <= y
  IN IF free = {} THEN [d EXCEPT !.short = TRUE]
     ELSE ConnectedCallback(
            Queue([d1 EXCEPT !.place[child] = Within(n),
                             !.tagOf[child] = "no-a"], 1),
            child, d.defs)

\* component.render(el) of a registered component: it makes a new cell
\* with the value 0 and writes el.innerHTML, which queues one childList
\* record: plain markup that shows the cell's value and has a button, as
\* HeaderComponent does, or, for the component "nest", markup with a
\* <no-a> element.  The component "header" is HeaderComponent itself:
\* before it writes the markup it subscribes its update function to its
\* cell and to the language changes, noUI.subscribeToLanguageChange(update).
Render(d, n, comp, via) ==
  LET d1 == [d EXCEPT !.log[n] = Append(@, [via |-> via, comp |-> comp]),
                      !.shown[n] = 0]
  IN CASE comp = "nest" -> RenderNested(d1, n)
       [] comp = "header" -> Queue([d1 EXCEPT !.subs.lang = Append(@, n)], 1)
       [] OTHER -> Queue(d1, 1)

\* connectedCallback of the class defined for the element's tag.
ConnectedCallback(d, n, defs) ==
  IF defs[d.tagOf[n]] # "none" THEN Render(d, n, defs[d.tagOf[n]], "cb") ELSE d

\* A scan loop that never sets _rendered.
RECURSIVE ScanElements_NoMark(_, _, _)
ScanElements_NoMark(d, ns, comp) ==
  IF ns = {} THEN d
  ELSE LET n == CHOOSE x \in ns : \A y \in ns : x <= y
           d1 == IF n \notin d.rendered THEN Render(d, n, comp, "scan") ELSE d
       IN ScanElements_NoMark(d1, ns \ {n}, comp)

\* elements.forEach of scanComponents, over the nodes ns in document order.
RECURSIVE ScanElements(_, _, _)
ScanElements(d, ns, comp) ==
  IF ns = {} THEN d
  ELSE LET n == CHOOSE x \in ns : \A y \in ns : x <= y
           d1 == IF n \notin d.rendered
                 THEN [Render(d, n, comp, "scan") EXCEPT !.rendered = @ \cup {n}]
                 ELSE d
       IN ScanElements(d1, ns \ {n}, comp)

\* document.querySelectorAll(name)
QuerySelectorAll(d, name) == {n \in Nodes : InDoc(d.place, n) /\ d.tagOf[n] = name}

TotalRenders(d) ==
  LET RECURSIVE Sum(_)
      Sum(ns) == IF ns = {} THEN 0
                 ELSE LET n == CHOOSE x \in ns : TRUE
                      IN Len(d.log[n]) + Sum(ns \ {n})
  IN Sum(Nodes)

\* components.forEach of scanComponents, from entry i on.
RECURSIVE ScanFrom(_, _, _)
ScanFrom(d, comps, i) ==
  IF i > Len(comps) THEN d
  ELSE ScanFrom(ScanElements(d, QuerySelectorAll(d, comps[i].name), comps[i].comp),
                comps, i + 1)

\* NoUI.scanComponents; d.renders gets one entry per call: the renders it made.
ScanComponents(d, comps) ==
  LET d1 == ScanFrom(d, comps, 1)
  IN [d1 EXCEPT !.renders = Append(@, TotalRenders(d1) - TotalRenders(d))]

Commit(d, op) ==
  /\ ~d.short
  /\ place' = d.place
  /\ tagOf' = d.tagOf
  /\ rendered' = d.rendered
  /\ log' = d.log
  /\ records' = d.records
  /\ observing' = d.obs
  /\ scanRenders' = d.renders
  /\ lastOp' = op
  /\ batch' = IF op = "handleMutations" THEN records ELSE <<>>
  /\ shown' = d.shown
  /\ clicks' = d.clicks
  /\ subscribers' = d.subs
  /\ UNCHANGED <<cellVars, storeVars>>

\* The scripts of one task run on while fewer than MaxQueue records await
\* delivery; then the observer's callback runs first.
Quiet == Len(records) < MaxQueue

\* Custom-element reactions for the nodes ns, in document order.
RECURSIVE ConnectAll(_, _, _)
ConnectAll(d, ns, defs) ==
  IF ns = {} THEN d
  ELSE LET n == CHOOSE x \in ns : \A y \in ns : x <= y
       IN ConnectAll(ConnectedCallback(d, n, defs), ns \ {n}, defs)

\* NoUI.registerComponent(name, component).  customElements.define throws
\* when the name is already defined, after components.set has run; on a
\* first definition the elements of that tag already in the document are
\* upgraded, which runs their connectedCallback.
RegisterComponent(name, comp) ==
  LET tag == ToLowerCase(name)
  IN /\ Quiet
     /\ components' = MapSet(components, tag, comp)
     /\ IF defined[tag] # "none"
        THEN /\ threw' = TRUE
             /\ defined' = defined
             /\ Commit(Dom, "registerComponent")
        ELSE /\ threw' = FALSE
             /\ defined' = [defined EXCEPT ![tag] = comp]
             /\ Commit(ConnectAll([Dom EXCEPT !.defs = defined'],
                                  QuerySelectorAll(Dom, tag), defined'),
                       "registerComponent")
     /\ UNCHANGED <<initDone, appExists, pages>>

\* The tail of NoUI.init: observer.observe(document.body, ...) and a scan.
InitObserve ==
  /\ ~initDone
  /\ initDone' = TRUE
  /\ threw' = FALSE
  /\ Commit(ScanComponents([Dom EXCEPT !.obs = TRUE], components), "init")
  /\ UNCHANGED <<components, defined, appExists, pages>>

\* A script appends a new element of a given tag to the live document.
InsertElement(tag, where) ==
  /\ Quiet
  /\ Fresh(place) # {}
  /\ where = "app" => appExists
  /\ LET n == NextFresh(place)
         d1 == Queue([Dom EXCEPT !.place[n] = where, !.tagOf[n] = tag], 1)
     IN Commit(ConnectedCallback(d1, n, defined), "insert")
  /\ threw' = FALSE
  /\ UNCHANGED <<components, defined, initDone, appExists, pages>>

\* A script removes an element from the live document.
RemoveElement(n) ==
  /\ Quiet
  /\ InDoc(place, n)
  /\ Commit(Queue(Discard(Dom, {n}), 0), "remove")
  /\ threw' = FALSE
  /\ UNCHANGED <<components, defined, initDone, appExists, pages>>

\* A handler that scans once for the whole batch.
HandleFrom_Coalesced(d, recs, i, comps) ==
  IF \E j \in i..Len(recs) : recs[j] # 0 THEN ScanComponents(d, comps) ELSE d

\* mutations.forEach of handleMutations, from record i of the batch on.
RECURSIVE HandleFrom(_, _, _, _)
HandleFrom(d, recs, i, comps) ==
  IF i > Len(recs) THEN d
  ELSE HandleFrom(IF recs[i] # 0 THEN ScanComponents(d, comps) ELSE d,
                  recs, i + 1, comps)

\* The observer delivers every queued record as one batch to
\* NoUI.handleMutations.
HandleMutations ==
  /\ records # <<>>
  /\ Commit(HandleFrom([Dom EXCEPT !.records = <<>>], records, 1, components),
            "handleMutations")
  /\ threw' = FALSE
  /\ UNCHANGED <<components, defined, initDone, appExists, pages>>

\* A direct call of noUI.scanComponents().
Scan ==
  /\ Commit(ScanComponents(Dom, components), "scan")
  /\ threw' = FALSE
  /\ UNCHANGED <<components, defined, initDone, appExists, pages>>

\* main.innerHTML = "": the children of #app leave the document.
ClearApp(d) ==
  LET kids == {n \in Nodes : d.place[n] = "app"}
      d1 == Discard(d, kids)
  IN IF kids # {} \/ pages > 0 THEN Queue(d1, 0) ELSE d1

\* The elements of a page template are created under #app, in order.
RECURSIVE Place(_, _, _)
Place(d, tpl, i) ==
  IF i > Len(tpl) THEN d
  ELSE LET n == NextFresh(d.place)
       IN Place([d EXCEPT !.place[n] = "app", !.tagOf[n] = tpl[i]], tpl, i + 1)

\* component.render(main) of a page component: one innerHTML assignment
\* that adds the template's elements and its plain markup, then the
\* custom-element reactions of the new elements.
PageRender(d, tpl) ==
  LET d1 == Queue(Place(d, tpl, 1), 1)
      new == {n \in Nodes : d1.place[n] = "app" /\ d.place[n] = "none"}
  IN ConnectAll(d1, new, defined)

\* A renderPage that scans before it clears and renders.
RenderPageOn_ScanFirst(d, tpl, comps, main) ==
  IF main THEN PageRender(ClearApp(ScanComponents(d, comps)), tpl) ELSE d

\* A renderPage that does not test whether #app was found.
RenderPageOn_Unguarded(d, tpl, comps, main) ==
  ScanComponents(PageRender(ClearApp(d), tpl), comps)

\* The body of renderPage; main says whether querySelector("#app") found
\* an element:
\* if (main) { main.innerHTML = ""; component.render(main); this.scanComponents(); }
RenderPageOn(d, tpl, comps, main) ==
  IF main THEN ScanComponents(PageRender(ClearApp(d), tpl), comps) ELSE d

\* NoUI.renderPage(path, component).
RenderPage(tpl) ==
  /\ Quiet
  /\ pages < MaxPages
  /\ Len(tpl) <= Cardinality(Fresh(place))
  /\ pages' = pages + 1
  /\ Commit(RenderPageOn(Dom, tpl, components, appExists), "renderPage")
  /\ threw' = FALSE
  /\ UNCHANGED <<components, defined, initDone, appExists>>

\* The user clicks the increment button of the element n: state.value++
\* on the cell of the render call that made the button, whose update
\* listener writes el.innerHTML with the new value.
Click(n) ==
  /\ Quiet
  /\ InDoc(place, n)
  /\ shown[n] >= 0
  /\ clicks[n] < MaxClicks
  /\ Commit(Queue([Dom EXCEPT !.shown[n] = @ + 1, !.clicks[n] = @ + 1], 1),
            "click")
  /\ threw' = FALSE
  /\ UNCHANGED <<components, defined, initDone, appExists, pages>>

\* The registered-tag elements of ContactComponent's markup.
ContactTemplate == <<"no-a">>

\* update() of ContactComponent: element.innerHTML = `...` on #app
\* replaces the children of #app by new elements, which are connected at
\* once, and queues one childList record; short says that the model has
\* no identity left for the new elements.
ContactUpdate(d) ==
  LET d1 == Discard(d, {n \in Nodes : d.place[n] = "app"})
  IN IF d.short \/ Cardinality(Fresh(d1.place)) < Len(ContactTemplate)
     THEN [d EXCEPT !.short = TRUE]
     ELSE PageRender(d1, ContactTemplate)

\* ContactComponent.render(element), element being #app:
\* useGlobalStore.subscribe(update); noUI.subscribeToLanguageChange(update);
\* update()
ContactRender(d) ==
  ContactUpdate([d EXCEPT !.subs.store = Append(@, 0),
                          !.subs.lang = Append(@, 0)])

\* noUI.renderPage("/contact", ContactComponent)
RenderContact ==
  /\ Quiet
  /\ pages < MaxPages
  /\ pages' = pages + 1
  /\ Commit(IF appExists
            THEN ScanComponents(ContactRender(ClearApp(Dom)), components)
            ELSE Dom, "renderPage")
  /\ threw' = FALSE
  /\ UNCHANGED <<components, defined, initDone, appExists>>

\* listeners.forEach of useGlobalStore, from entry i on: every listener
\* is an update function of ContactComponent.
RECURSIVE NotifyStore(_, _)
NotifyStore(d, i) ==
  IF i > Len(d.subs.store) \/ d.short THEN d
  ELSE NotifyStore(ContactUpdate(d), i + 1)

\* A click on a button of the contact page: an action of useGlobalStore
\* commits a state and calls the listeners of the store.
GlobalStoreChange ==
  /\ Quiet
  /\ subscribers.store # <<>>
  /\ Commit(NotifyStore(Dom, 1), "storeChange")
  /\ threw' = FALSE
  /\ UNCHANGED <<components, defined, initDone, appExists, pages>>

\* update() of HeaderComponent for the element n: it writes the markup of
\* n again; a write into an element that has left the document changes
\* nothing of the document.
HeaderUpdate(d, n) ==
  IF InDoc(d.place, n) THEN Queue(d, 1) ELSE d

\* translationSubscribers.forEach(callback => callback(currentLang)), from
\* entry i on; a callback subscribed during the round is called in it.
RECURSIVE NotifyTranslationSubscribers(_, _)
NotifyTranslationSubscribers(d, i) ==
  IF i > Len(d.subs.lang) \/ d.short THEN d
  ELSE NotifyTranslationSubscribers(
         IF d.subs.lang[i] = 0 THEN ContactUpdate(d)
         ELSE HeaderUpdate(d, d.subs.lang[i]), i + 1)

\* noUI.setLanguage(lang) with a language that has translations.
SetLanguage ==
  /\ Quiet
  /\ Commit(NotifyTranslationSubscribers(Dom, 1), "setLanguage")
  /\ threw' = FALSE
  /\ UNCHANGED <<components, defined, initDone, appExists, pages>>

\* The contact page of components.js: HeaderComponent registered, the page
\* rendered, store changes and language changes, and scripts that insert
\* and remove elements.
NextPage ==
  \/ RegisterComponent("no-a", "header")
  \/ InitObserve
  \/ HandleMutations
  \/ Scan
  \/ InsertElement("no-a", "body")
  \/ \E n \in Nodes : RemoveElement(n)
  \/ RenderContact
  \/ GlobalStoreChange
  \/ SetLanguage

\* The README's counter: one registered counter component, elements of its
\* tag put into the page, clicks and scans.
NextCounter ==
  \/ RegisterComponent("no-a", "c1")
  \/ InitObserve
  \/ InsertElement("no-a", "body")
  \/ HandleMutations
  \/ Scan
  \/ \E n \in Nodes : Click(n)

\* An initialised page in use: registrations, page renders, insertions,
\* removals and clicks, and the observer's deliveries.
NextLive ==
  \/ \E name \in {"no-a", "no-b"} : RegisterComponent(name, "c1")
  \/ InitObserve
  \/ InsertElement("no-a", "body")
  \/ \E n \in Nodes : RemoveElement(n)
  \/ HandleMutations
  \/ Scan
  \/ \E tpl \in {<<"no-a", "no-b">>} : RenderPage(tpl)
  \/ \E n \in Nodes : Click(n)

NextRegistry ==
  \/ \E name \in Names, comp \in Comps : RegisterComponent(name, comp)
  \/ InitObserve
  \/ \E tag \in Tags, where \in {"app", "body"} : InsertElement(tag, where)
  \/ \E n \in Nodes : RemoveElement(n)
  \/ HandleMutations
  \/ Scan
  \/ \E tpl \in PageTemplates : RenderPage(tpl)

\* A page with a component whose render writes an element of another
\* registered tag: no-a is a plain component, the markup of no-b holds a
\* <no-a>; the two are registered in either order.
NextNested ==
  \/ RegisterComponent("no-a", "c1")
  \/ RegisterComponent("no-b", "nest")
  \/ InitObserve
  \/ \E tag \in Tags : InsertElement(tag, "body")
  \/ \E n \in Nodes : RemoveElement(n)
  \/ HandleMutations
  \/ Scan

\* ------------------------------------------------------ registry: claims

\* C1 (as claimed): every node of a registered tag is rendered exactly once,
\* the attach hook and all scans counted together; so no node ever has more
\* than one render call.
C1_RenderedOnce == \A n \in Nodes : Len(log[n]) <= 1

\* The operation that produced the state ended with a scanComponents call.
EndedWithScan ==
  \/ lastOp \in {"scan", "init"}
  \/ lastOp \in {"handleMutations", "renderPage"} /\ scanRenders # <<>>

ScanCount(n) == Cardinality({i \in 1..Len(log[n]) : log[n][i].via = "scan"})

C13_CounterAfterClick ==
  \A n \in Nodes : (InDoc(place, n) /\ clicks[n] = 1) => shown[n] = 1

\* C14: a renderPage call that finds #app removes every child #app had,
\* lets the page component put its elements under #app and then scans
\* once: when it returns, the children of #app are new nodes and each of
\* them that has a registered tag has been rendered and is marked.
C14_RenderPageOrder ==
  [][(lastOp' = "renderPage" /\ appExists) =>
       /\ \A n \in Nodes : place[n] = "app" => place'[n] = "gone"
       /\ \A n \in Nodes : place'[n] = "app" =>
            /\ place[n] = "none"
            /\ MapHas(components, tagOf'[n]) =>
                 n \in rendered' /\ log'[n] # <<>> /\ ScanCount(n)' = 1
       /\ Len(scanRenders') = 1]_vars

\* C14 witness: renderPage returned with a rendered, marked element under
\* #app after the children of an earlier page were removed.
C14_Witness ==
  /\ lastOp = "renderPage"
  /\ appExists
  /\ \E n \in Nodes : place[n] = "gone"
  /\ \E n \in Nodes : place[n] = "app" /\ n \in rendered /\ ScanCount(n) = 1

\* C15: a renderPage call that finds no #app changes nothing: it renders
\* nothing, makes no scan, raises no error, and the document, the render
\* flags and the registry are as before.
C15_RenderPageNoRoot ==
  [][(lastOp' = "renderPage" /\ ~appExists) =>
       /\ place' = place /\ tagOf' = tagOf /\ rendered' = rendered
       /\ log' = log /\ shown' = shown /\ records' = records
       /\ components' = components /\ defined' = defined
       /\ scanRenders' = <<>>
       /\ ~threw']_vars

\* C15 witness: renderPage returned without #app while an element of a
\* registered tag was in the document, unmarked.
C15_Witness ==
  /\ lastOp = "renderPage"
  /\ ~appExists
  /\ \E n \in Nodes :
       InDoc(place, n) /\ MapHas(components, tagOf[n]) /\ n \notin rendered

\* The component under which the Map has the tag of node n.
Registered(comps, tag) ==
  LET i == CHOOSE j \in 1..Len(comps) : comps[j].name = tag IN comps[i].comp

\* C16 (as claimed): registering a name whose lower-cased tag is already
\* registered raises no error, replaces the Map entry and renders nothing;
\* a later scan renders the unmarked elements of the tag with the component
\* registered last and leaves the marked ones alone.
C16_ReRegisterReplaces ==
  [][/\ (lastOp' = "registerComponent" /\ Len(components') = Len(components)) =>
          ~threw' /\ log' = log /\ rendered' = rendered
     /\ lastOp' \in {"scan", "init", "handleMutations"} =>
          \A n \in Nodes :
            IF n \in rendered THEN InDoc(place', n) => log'[n] = log[n]
            ELSE \A i \in Len(log[n]) + 1..Len(log'[n]) :
                   log'[n][i] = [via |-> "scan",
                                 comp |-> Registered(components, tagOf[n])]]_vars

AddedRecords(recs) == Cardinality({i \in 1..Len(recs) : recs[i] # 0})

SetHas(e, x) == \E i \in 1..Len(e) : e[i] = x
SetAdd(e, x) == IF SetHas(e, x) THEN e ELSE Append(e, x)
\* A delete that closes the gap at once, as Array.prototype.splice does.
SetDelete_Splice(e, x) == SelectSeq(e, LAMBDA y : y # x)
\* A delete that removes nothing.
SetDelete_Keep(e, x) == e
\* Set.prototype.delete; an entry deleted while a forEach is in progress
\* leaves a gap that the forEach passes over.
SetDelete(e, x) == [i \in 1..Len(e) |-> IF e[i] = x THEN 0 ELSE e[i]]
SetMembers(e) == {e[i] : i \in 1..Len(e)} \ {0}
\* With no forEach in progress the emptied entries are unobservable.
SetCompact(e) == SelectSeq(e, LAMBDA x : x # 0)

\* ------------------------------------------------- cell: NoUI.createState
Vals == 0..MaxVal
Listeners == 1..MaxListeners
\* What a subscribed callback does when it is called: nothing to the cell
\* (it only re-renders), unsubscribe itself, unsubscribe another listener,
\* or assign the cell (a reset to 0).
ListenerKinds == {"plain", "unsubSelf", "unsubOther", "assign"}
NoListener == [kind |-> "none", target |-> 0]
\* A callback that has been unsubscribed: nothing refers to it any more.
Gone == [kind |-> "gone", target |-> 0]
\* The callbacks of kinds that are no longer in the Set e are dropped.
Forget(kinds, e) ==
  [l \in Listeners |->
     IF kinds[l].kind = "none" \/ SetHas(e, l) THEN kinds[l] ELSE Gone]

\* newValue !== value, on primitive values.
StrictNotEqual(a, b) == a # b

Cell == [value |-> cellValue, listeners |-> cellListeners, calls |-> <<>>,
         rounds |-> <<>>]

\* A setter without the equality test (the variant of unnamed/part_000).
RECURSIVE CellSet_Always(_, _)
RECURSIVE CellSet(_, _)
RECURSIVE CellForEach(_, _, _)

\* The callback l runs: the effect of its body on the cell.
CellCallback(c, l) ==
  CASE cellKind[l].kind = "unsubSelf" ->
         [c EXCEPT !.listeners = SetDelete(@, l)]
    [] cellKind[l].kind = "unsubOther" ->
         [c EXCEPT !.listeners = SetDelete(@, cellKind[l].target)]
    [] cellKind[l].kind = "assign" -> CellSet(c, 0)
    [] OTHER -> c

\* The argument expression of listener(value): the variable value, read
\* when the listener is called.
CellArgument(c, r) == c.value

\* listeners.forEach((listener) => listener(value)), from entry i on, in
\* round r; now is what the getter of the cell returns when the listener
\* is entered.
CellForEach(c, i, r) ==
  IF i > Len(c.listeners) THEN c
  ELSE LET l == c.listeners[i]
       IN IF l = 0 THEN CellForEach(c, i + 1, r)
          ELSE CellForEach(
                 CellCallback([c EXCEPT !.calls = Append(@,
                                 [l |-> l, arg |-> CellArgument(c, r),
                                  now |-> c.value, round |-> r])], l),
                 i + 1, r)

CellSet_Always(c, newValue) ==
  LET c1 == [c EXCEPT !.value = newValue,
                      !.rounds = Append(@, [start |-> SetMembers(c.listeners),
                                            kinds |-> cellKind,
                                            new |-> newValue])]
  IN CellForEach(c1, 1, Len(c1.rounds))

\* set value(newValue)
CellSet(c, newValue) ==
  IF StrictNotEqual(newValue, c.value)
  THEN LET c1 == [c EXCEPT !.value = newValue,
                           !.rounds = Append(@, [start |-> SetMembers(c.listeners),
                                                 kinds |-> cellKind,
                                                 new |-> newValue])]
       IN CellForEach(c1, 1, Len(c1.rounds))
  ELSE c

CellCommit(c, kinds, op, arg) ==
  /\ cellValue' = c.value
  /\ cellKind' = Forget(kinds, c.listeners)
  /\ cellListeners' = SetCompact(c.listeners)
  /\ cellCalls' = c.calls
  /\ cellRounds' = c.rounds
  /\ cellOp' = op
  /\ cellPrev' = cellValue
  /\ cellArg' = arg
  /\ UNCHANGED <<regVars, storeVars>>

\* state.subscribe(listener) with a new callback of the given kind.
CellSubscribe(kind, target) ==
  /\ \E l \in Listeners : cellKind[l].kind = "none"
  /\ LET l == CHOOSE x \in Listeners :
                /\ cellKind[x].kind = "none"
                /\ \A y \in Listeners : cellKind[y].kind = "none" => x <= y
     IN /\ IF kind = "unsubOther"
           THEN target # l /\ (target < l => SetHas(cellListeners, target))
           ELSE target = 0
        /\ CellCommit([Cell EXCEPT !.listeners = SetAdd(@, l)],
                      [cellKind EXCEPT ![l] = [kind |-> kind, target |-> target]],
                      "subscribe", cellValue)

\* The function returned by subscribe is called (from outside a round).
CellUnsubscribe(l) ==
  /\ cellKind[l].kind # "none"
  /\ CellCommit([Cell EXCEPT !.listeners = SetDelete(@, l)], cellKind,
                "unsubscribe", l)

\* state.value = v
CellAssign(v) ==
  /\ CellCommit(CellSet(Cell, v), cellKind, "assign", v)

NextCell ==
  \/ \E k \in ListenerKinds, t \in {0} \cup Listeners : CellSubscribe(k, t)
  \/ \E l \in Listeners : CellUnsubscribe(l)
  \/ \E v \in Vals : CellAssign(v)

\* ------------------------------------------------------ store: values
\* The values of state keys: numbers n, written Num(n), and nested
\* mappings with the keys x and y.
Num(n) == [num |-> n]
EmptyMap == [k \in {} |-> Num(0)]
NoItem == [none |-> Num(0)]
\* A string value.
Str(t) == [str |-> t]
\* The value undefined, as in set({ message }) with no message given.
Undef == [undefined |-> TRUE]

\* A merge that also merges nested mappings key by key.
Merge_Deep(s, p) ==
  [k \in DOMAIN s \cup DOMAIN p |->
     IF k \notin DOMAIN p THEN s[k]
     ELSE IF k \in DOMAIN s /\ "num" \notin DOMAIN s[k] /\ "num" \notin DOMAIN p[k]
          THEN [j \in DOMAIN s[k] \cup DOMAIN p[k] |->
                  IF j \in DOMAIN p[k] THEN p[k][j] ELSE s[k][j]]
          ELSE p[k]]

\* { ...s, ...p }
Merge(s, p) ==
  [k \in DOMAIN s \cup DOMAIN p |-> IF k \in DOMAIN p THEN p[k] ELSE s[k]]

\* The partial updates handed to setState: mappings, and one function of
\* the state, (s) => ({ n: s.n === 1 ? 2 : 1 }).
MapPartials ==
  { [n |-> Num(1)], [a |-> [x |-> 1]], [a |-> [y |-> 2]],
    [asyncAction |-> Num(1)] }
Partials == [fn : {FALSE}, map : MapPartials] \cup [fn : {TRUE}, map : {EmptyMap}]

\* typeof partial === 'function' ? partial(state) : partial
Resolve(partial, st) ==
  IF partial.fn
  THEN [n |-> IF "n" \in DOMAIN st /\ st.n = Num(1) THEN Num(2) ELSE Num(1)]
  ELSE partial.map

\* JSON.stringify of a state mapping: numbers and nested mappings of
\* numbers are written as they are, a key whose value is undefined is left
\* out.
JsonStringify(m) ==
  [json |-> [k \in {j \in DOMAIN m : m[j] # Undef} |-> m[k]]]
\* JSON.parse
JsonParse(t) == t.json

\* ------------------------------------------------- store: middlewares
\* logger and persist are noui.js's own; A rewrites the patch {n: 1} to
\* {n: 2}; B adds {m: 1} to the patch; async is the README's asyncMiddleware;
\* throw raises an exception; ctxSet calls the setState of its context with
\* {m: 1} and returns nothing.
MwKinds == {"logger", "persist", "A", "B", "async", "throw", "ctxSet"}

RECURSIVE SeqsUpTo(_, _)
SeqsUpTo(S, n) ==
  IF n = 0 THEN {<<>>}
  ELSE LET shorter == SeqsUpTo(S, n - 1)
       IN shorter \cup {Append(q, x) : q \in shorter, x \in S}

Chains == SeqsUpTo(MwKinds, MaxChain)

\* The locals of one setState call while its chain runs.
\* threw: a middleware threw; nulls: a middleware returned null;
\* sched: a middleware started asynchronous work; result: what the
\* middleware being called returned (NoItem for nothing); ctx: it called the
\* setState of its context; seen: per middleware called so far, what it
\* was given and what it did.
Frame(st, nextState, item) ==
  [currentState |-> st, update |-> nextState, item |-> item,
   threw |-> FALSE, nulls |-> FALSE, sched |-> FALSE,
   result |-> NoItem, ctx |-> FALSE, seen |-> <<>>]

\* A returned patch that replaces the pending patch only.
Returned_NoMerge(f, result) ==
  [f EXCEPT !.update = result, !.result = result]

\* if (result) { update = result; currentState = {...currentState, ...update}; }
Returned(f, result) ==
  [f EXCEPT !.update = result, !.currentState = Merge(@, result),
            !.result = result]

\* The setState of the middleware context:
\* update = next; currentState = {...currentState, ...update}
ContextSetState(f, next) ==
  [f EXCEPT !.update = next, !.currentState = Merge(@, next), !.ctx = TRUE]

\* A logger that returns the state it reads in place of the patch.
LoggerMiddleware_ReturnsState(f) == Returned(f, f.currentState)

\* loggerMiddleware: logs getState() and nextState, returns nextState.
LoggerMiddleware(f) == Returned(f, f.update)

\* A persistMiddleware that writes the state it reads without the patch.
PersistMiddleware_Stale(f) ==
  Returned([f EXCEPT !.item = JsonStringify(f.currentState)], f.update)

\* persistMiddleware: localStorage.setItem(storageKey,
\* JSON.stringify({ ...getState(), ...nextState })); return nextState
PersistMiddleware(f) ==
  Returned([f EXCEPT !.item = JsonStringify(Merge(f.currentState, f.update))],
           f.update)

\* The body of one middleware, by kind.
MiddlewareBody(kind, f) ==
  CASE kind = "logger" -> LoggerMiddleware(f)
    [] kind = "persist" -> PersistMiddleware(f)
    [] kind = "A" ->
         Returned(f, IF f.update = [n |-> Num(1)] THEN [n |-> Num(2)] ELSE f.update)
    [] kind = "B" -> Returned(f, Merge(f.update, [m |-> Num(1)]))
    [] kind = "async" ->
         IF "asyncAction" \in DOMAIN f.update /\ f.update.asyncAction # Num(0)
         THEN [f EXCEPT !.nulls = TRUE, !.sched = TRUE]
         ELSE Returned(f, f.update)
    [] kind = "throw" -> [f EXCEPT !.threw = TRUE]
    [] kind = "ctxSet" -> ContextSetState(f, [m |-> Num(1)])

\* One middleware is called with { getState, setState, nextState: update }.
Middleware(kind, f) ==
  LET g == MiddlewareBody(kind, [f EXCEPT !.result = NoItem, !.ctx = FALSE])
  IN [g EXCEPT !.seen = Append(@, [kind |-> kind, nextState |-> f.update,
                                   getState |-> f.currentState,
                                   result |-> g.result, ctx |-> g.ctx])]

\* A chain run from its last middleware to its first.
RECURSIVE Chain_Reversed(_, _, _)
Chain_Reversed(f, mws, i) ==
  IF i > Len(mws) \/ f.threw THEN f
  ELSE Chain_Reversed(Middleware(mws[Len(mws) + 1 - i], f), mws, i + 1)

\* middlewares.forEach(...), from middleware i on; an exception ends it.
RECURSIVE Chain(_, _, _)
Chain(f, mws, i) ==
  IF i > Len(mws) \/ f.threw THEN f
  ELSE Chain(Middleware(mws[i], f), mws, i + 1)

\* ------------------------------------------------- store: notification
StoreListenerKinds == {"plain", "unsubSelf", "unsubOther"}
\* and a callback that calls setState itself:
\* (s) => { if (s.n !== 2) store.setState({ n: 2 }) }
ReentrantKinds == {"plain", "set"}

Store == [state |-> storeState, listeners |-> storeListeners, calls |-> <<>>,
          rounds |-> <<>>]

RECURSIVE StoreSetState(_, _)
RECURSIVE StoreCommit_IfChanged(_, _)
RECURSIVE StoreCommit(_, _)
RECURSIVE StoreForEach(_, _, _)

\* The callback l runs: the effect of its body on the store.
StoreCallback(s, l) ==
  CASE storeKind[l].kind = "unsubSelf" ->
         [s EXCEPT !.listeners = SetDelete(@, l)]
    [] storeKind[l].kind = "unsubOther" ->
         [s EXCEPT !.listeners = SetDelete(@, storeKind[l].target)]
    [] storeKind[l].kind = "set" ->
         IF "n" \in DOMAIN s.state /\ s.state.n = Num(2) THEN s
         ELSE StoreSetState(s, [fn |-> FALSE, map |-> [n |-> Num(2)]])
    [] OTHER -> s

\* An argument that is the state the round committed.
StoreArgument_OfRound(s, r) == s.rounds[r].new

\* The argument expression of listener(state): the variable state, read
\* when the listener is called.
StoreArgument(s, r) == s.state

\* listeners.forEach((listener) => listener(state)), from entry i on, in
\* round r; now is what getState() returns when the listener is entered.
StoreForEach(s, i, r) ==
  IF i > Len(s.listeners) THEN s
  ELSE LET l == s.listeners[i]
       IN IF l = 0 THEN StoreForEach(s, i + 1, r)
          ELSE StoreForEach(
                 StoreCallback([s EXCEPT !.calls = Append(@,
                                  [l |-> l, arg |-> StoreArgument(s, r),
                                   now |-> s.state, round |-> r])], l),
                 i + 1, r)

\* A commit that notifies only when some value changed.
StoreCommit_IfChanged(s, update) ==
  LET s1 == [s EXCEPT !.state = Merge(s.state, update),
                      !.rounds = Append(@, [start |-> SetMembers(s.listeners),
                                            kinds |-> storeKind,
                                            new |-> Merge(s.state, update)])]
  IN IF s1.state = s.state THEN [s EXCEPT !.rounds = s1.rounds]
     ELSE StoreForEach(s1, 1, Len(s1.rounds))

\* state = { ...state, ...update }; listeners.forEach(...)
StoreCommit(s, update) ==
  LET s1 == [s EXCEPT !.state = Merge(s.state, update),
                      !.rounds = Append(@, [start |-> SetMembers(s.listeners),
                                            kinds |-> storeKind,
                                            new |-> Merge(s.state, update)])]
  IN StoreForEach(s1, 1, Len(s1.rounds))

\* The setState of the createStore without middlewares, on a store s:
\* nextState = typeof partial === 'function' ? partial(state) : partial;
\* state = { ...state, ...nextState }; listeners.forEach(...)
VariantSetState(s, partial) ==
  LET nextState == Resolve(partial, s.state)
      s1 == [s EXCEPT !.state = Merge(s.state, nextState),
                      !.rounds = Append(@, [start |-> SetMembers(s.listeners),
                                            kinds |-> storeKind,
                                            new |-> Merge(s.state, nextState)])]
  IN StoreForEach(s1, 1, Len(s1.rounds))

\* Object identities: 0 for the current state object, 1..MaxHeld for the
\* earlier ones still held.
Refs == 0..MaxHeld
NewHeap(st) == [r \in Refs |-> IF r = 0 THEN st ELSE NoItem]
Heap == [heap |-> heap, held |-> held]

\* A commit that writes the new keys into the current state object.
HeapCommit_InPlace(h, st) ==
  [h EXCEPT !.heap[0] = st]

\* state = { ...state, ...update }: the variable state refers to a new
\* object; the object it referred to stays as it is, and stays reachable
\* for the readers that hold it.
HeapCommit(h, st) ==
  LET kept == \E s \in h.held : s.ref = 0
      slot == CHOOSE r \in Refs \ {0} :
                /\ h.heap[r] = NoItem
                /\ \A q \in Refs \ {0} : h.heap[q] = NoItem => r <= q
  IN IF kept
     THEN [heap |-> [r \in Refs |-> IF r = 0 THEN st
                                     ELSE IF r = slot THEN h.heap[0]
                                     ELSE h.heap[r]],
           held |-> {[s EXCEPT !.ref = IF @ = 0 THEN slot ELSE @] : s \in h.held}]
     ELSE [h EXCEPT !.heap[0] = st]

NoHist ==
  [op |-> "new", prev |-> EmptyMap, patch |-> EmptyMap, final |-> EmptyMap,
   running |-> EmptyMap, threw |-> FALSE, nulls |-> FALSE, calls |-> <<>>,
   rounds |-> <<>>, who |-> 0, trace |-> <<>>]

\* A commit of everything the middlewares saw through getState().
FinalPatch_Running(f) == f.currentState

\* The value of update when middlewares.forEach has returned.
FinalPatch(f) == f.update

\* A commit made whether or not the chain ended with an exception.
CommitAfter_Finally(f, s) == StoreCommit(s, FinalPatch(f))

\* The two statements after middlewares.forEach(...): they are reached
\* only when no middleware threw, the exception leaving setState.
CommitAfter(f, s) == IF f.threw THEN s ELSE StoreCommit(s, FinalPatch(f))

\* store.setState(partial) called by a listener during a round, on the
\* store as it is then; the chain leaves the stored item as it is.
StoreSetState(s, partial) ==
  LET nextState == Resolve(partial, s.state)
      f == Chain(Frame(s.state, nextState, persisted), middlewares, 1)
  IN CommitAfter(f, s)

\* store.setState(partial), called directly (op "setState") or by the
\* action of the store that op names.
SetStateOp(op, partial) ==
  LET nextState == Resolve(partial, storeState)
      f == Chain(Frame(storeState, nextState, persisted), middlewares, 1)
      s == CommitAfter(f, Store)
  IN /\ f.sched /\ ~f.threw => Cardinality(deferred) < MaxDeferred
     /\ storeState' = s.state
     /\ storeListeners' = SetCompact(s.listeners)
     /\ storeKind' = Forget(storeKind, s.listeners)
     /\ persisted' = f.item
     /\ deferred' = IF f.sched /\ ~f.threw
                    THEN deferred \cup {[currentState |-> f.currentState,
                                         update |-> f.update]}
                    ELSE deferred
     /\ storeHist' = [op |-> op, prev |-> storeState, patch |-> nextState,
                      final |-> f.update, running |-> f.currentState,
                      threw |-> f.threw, nulls |-> f.nulls,
                      calls |-> s.calls, rounds |-> s.rounds, who |-> 0,
                      trace |-> f.seen]
     /\ LET h == IF f.threw THEN Heap ELSE HeapCommit(Heap, s.state)
        IN heap' = h.heap /\ held' = h.held
     /\ UNCHANGED <<middlewares, regVars, cellVars>>

\* store.setState(partial)
SetState(partial) == SetStateOp("setState", partial)

\* The asynchronous work of a middleware completes and calls the setState
\* of the context it was given, with {data: 1}.  That setState assigns the
\* locals update and currentState of the setState call that has returned.
DeferredSetState(d) ==
  /\ d \in deferred
  /\ deferred' = deferred \ {d}
  /\ storeHist' = [NoHist EXCEPT !.op = "deferred", !.prev = storeState,
                                 !.patch = [data |-> Num(1)],
                                 !.final = [data |-> Num(1)],
                                 !.running = Merge(d.currentState, [data |-> Num(1)])]
  /\ UNCHANGED <<storeState, storeListeners, storeKind, middlewares, persisted,
                 heap, held, regVars, cellVars>>

\* store.subscribe(listener) with a new callback of the given kind.
StoreSubscribe(kind, target) ==
  /\ \E l \in Listeners : storeKind[l].kind = "none"
  /\ LET l == CHOOSE x \in Listeners :
                /\ storeKind[x].kind = "none"
                /\ \A y \in Listeners : storeKind[y].kind = "none" => x <= y
     IN /\ IF kind = "unsubOther"
           THEN target # l /\ (target < l => SetHas(storeListeners, target))
           ELSE target = 0
        /\ storeKind' = [storeKind EXCEPT ![l] = [kind |-> kind, target |-> target]]
        /\ storeListeners' = SetAdd(storeListeners, l)
  /\ storeHist' = [NoHist EXCEPT !.op = "subscribe", !.prev = storeState]
  /\ UNCHANGED <<storeState, middlewares, persisted, deferred, heap, held,
                 regVars, cellVars>>

\* The function returned by subscribe is called (from outside a round).
StoreUnsubscribe(l) ==
  /\ storeKind[l].kind # "none"
  /\ storeListeners' = SetCompact(SetDelete(storeListeners, l))
  /\ storeKind' = Forget(storeKind, storeListeners')
  /\ storeHist' = [NoHist EXCEPT !.op = "unsubscribe", !.prev = storeState,
                                 !.who = l]
  /\ UNCHANGED <<storeState, middlewares, persisted, deferred, heap, held,
                 regVars, cellVars>>

\* The state of the store of components.js when it is created.
StoreInitial == [count |-> Num(0), message |-> Str("Welcome to Contact")]

\* The updates made to that store: those above, set({ count: 3 }) and
\* set({ message }) with message undefined.
PersistPartials ==
  Partials \cup [fn : {FALSE}, map : {[count |-> Num(3)], [message |-> Undef]}]

\* The middleware lists made of logger and persist that contain persist.
PersistChains ==
  {c \in SeqsUpTo({"logger", "persist"}, MaxChain) :
     \E i \in 1..Len(c) : c[i] = "persist"}

\* The page is loaded again: components.js creates the store anew, with its
\* initial state, its middlewares and no subscriber, and, if localStorage
\* holds an item, calls setState(JSON.parse(savedState)).
Reload ==
  LET saved == persisted # NoItem
      nextState == IF saved THEN JsonParse(persisted) ELSE EmptyMap
      f == Chain(Frame(StoreInitial, nextState, persisted), middlewares, 1)
  IN /\ storeState' = IF saved /\ ~f.threw THEN Merge(StoreInitial, f.update)
                       ELSE StoreInitial
     /\ storeListeners' = <<>>
     /\ storeKind' = [l \in Listeners |-> NoListener]
     /\ persisted' = IF saved THEN f.item ELSE persisted
     /\ deferred' = {}
     /\ storeHist' = IF saved
                     THEN [NoHist EXCEPT !.op = "hydrate", !.prev = storeState,
                                         !.patch = nextState, !.final = f.update,
                                         !.running = f.currentState,
                                         !.threw = f.threw,
                                         !.trace = f.seen,
                                         !.rounds =
                                           IF f.threw THEN <<>>
                                           ELSE <<[start |-> {},
                                                   kinds |-> [l \in Listeners |->
                                                                NoListener]]>>]
                     ELSE [NoHist EXCEPT !.op = "reload", !.prev = storeState]
     /\ heap' = NewHeap(storeState')
     /\ held' = {}
     /\ UNCHANGED <<middlewares, regVars, cellVars>>

\* An increment that adds one to the count the store was created with.
IncrementPatch_Stale(st) == [count |-> Num(StoreInitial.count.num + 1)]

\* increment: () => set({ count: get().count + 1 })
IncrementPatch(st) == [count |-> Num(st.count.num + 1)]

\* decrement: () => set({ count: get().count - 1 })
DecrementPatch(st) == [count |-> Num(st.count.num - 1)]

\* The arguments given to updateMessage; undefined when none is given.
Messages == {Str("a"), Str("b"), Undef}

\* useGlobalStore.increment()
Increment ==
  /\ storeState.count.num < MaxCount
  /\ SetStateOp("increment", [fn |-> FALSE, map |-> IncrementPatch(storeState)])

\* useGlobalStore.decrement()
Decrement ==
  /\ storeState.count.num > -MaxCount
  /\ SetStateOp("decrement", [fn |-> FALSE, map |-> DecrementPatch(storeState)])

\* useGlobalStore.updateMessage(message): set({ message })
UpdateMessage(message) ==
  SetStateOp("updateMessage", [fn |-> FALSE, map |-> [message |-> message]])

\* The store of components.js used through its actions, with subscribers,
\* over several loads of the page.
NextDemo ==
  \/ Increment
  \/ Decrement
  \/ \E message \in Messages : UpdateMessage(message)
  \/ StoreSubscribe("plain", 0)
  \/ Reload

\* The store of components.js over several loads of the page.
NextPersist ==
  \/ \E partial \in PersistPartials : SetState(partial)
  \/ Reload

\* A reader obtains the current state object: the return value of
\* getState(), or the argument a listener was called with, kept.
GetState ==
  /\ Cardinality(held) < MaxHeld
  /\ [ref |-> 0, seen |-> heap[0]] \notin held
  /\ held' = held \cup {[ref |-> 0, seen |-> heap[0]]}
  /\ storeHist' = [NoHist EXCEPT !.op = "getState", !.prev = storeState]
  /\ UNCHANGED <<storeState, storeListeners, storeKind, middlewares, persisted,
                 deferred, heap, regVars, cellVars>>

\* A reader drops a snapshot; an object nobody holds is collected.
Release(s) ==
  /\ s \in held
  /\ held' = held \ {s}
  /\ heap' = [r \in Refs |->
               IF r = 0 \/ \E t \in held' : t.ref = r THEN heap[r] ELSE NoItem]
  /\ storeHist' = [NoHist EXCEPT !.op = "release", !.prev = storeState]
  /\ UNCHANGED <<storeState, storeListeners, storeKind, middlewares, persisted,
                 deferred, regVars, cellVars>>

\* The store and the readers that keep what getState() returned.
NextSnapshot ==
  \/ \E partial \in Partials : SetState(partial)
  \/ GetState
  \/ \E s \in held : Release(s)

\* One cell and one store, with listeners that observe and callers that
\* call the functions subscribe returned, any number of times.
NextUnsubscribe ==
  \/ CellSubscribe("plain", 0)
  \/ \E l \in Listeners : CellUnsubscribe(l)
  \/ \E v \in Vals : CellAssign(v)
  \/ StoreSubscribe("plain", 0)
  \/ \E l \in Listeners : StoreUnsubscribe(l)
  \/ \E partial \in {p \in Partials : p.fn} : SetState(partial)

\* The store under any middleware chain, with subscribers that only observe.
NextStore ==
  \/ \E partial \in Partials : SetState(partial)
  \/ \E d \in deferred : DeferredSetState(d)
  \/ StoreSubscribe("plain", 0)
  \/ \E l \in Listeners : StoreUnsubscribe(l)

\* The store of components.js (logger, then persist) and the store without
\* middlewares, with subscribers that unsubscribe during a round.
NextRounds ==
  \/ \E partial \in Partials : SetState(partial)
  \/ \E k \in StoreListenerKinds, t \in {0} \cup Listeners : StoreSubscribe(k, t)
  \/ \E l \in Listeners : StoreUnsubscribe(l)

\* One cell and one store whose listeners assign the cell and call
\* setState during a round.
NextReentrant ==
  \/ \E k \in {"plain", "assign"} : CellSubscribe(k, 0)
  \/ \E v \in Vals : CellAssign(v)
  \/ \E k \in ReentrantKinds : StoreSubscribe(k, 0)
  \/ \E partial \in {p \in Partials : p.fn} : SetState(partial)

\* ------------------------------------------------------- specifications
\* The state after new NoUI(config), NoUI.createState(v) and
\* createStore(initializer, chain): apps says whether the page has an #app
\* element, vals are the initial values of the cell, chains the middleware
\* lists of the store.
Init(apps, vals, chains, st) ==
  /\ components = <<>>
  /\ defined = [t \in Tags |-> "none"]
  /\ place = [n \in Nodes |-> "none"]
  /\ tagOf = [n \in Nodes |-> "none"]
  /\ rendered = {}
  /\ log = [n \in Nodes |-> <<>>]
  /\ records = <<>>
  /\ observing = FALSE
  /\ initDone = FALSE
  /\ appExists \in apps
  /\ pages = 0
  /\ lastOp = "new"
  /\ shown = [n \in Nodes |-> -1]
  /\ clicks = [n \in Nodes |-> 0]
  /\ subscribers = [lang |-> <<>>, store |-> <<>>]
  /\ scanRenders = <<>>
  /\ batch = <<>>
  /\ threw = FALSE
  /\ cellValue \in vals
  /\ cellListeners = <<>>
  /\ cellKind = [l \in Listeners |-> NoListener]
  /\ cellOp = "new"
  /\ cellPrev = cellValue
  /\ cellArg = cellValue
  /\ cellCalls = <<>>
  /\ cellRounds = <<>>
  /\ storeState = st
  /\ storeListeners = <<>>
  /\ storeKind = [l \in Listeners |-> NoListener]
  /\ middlewares \in chains
  /\ persisted = NoItem
  /\ deferred = {}
  /\ storeHist = NoHist
  /\ heap = NewHeap(st)
  /\ held = {}

\* The registry and the document.
Spec ==
  Init(BOOLEAN, {0}, {<<>>}, EmptyMap) /\ [][NextRegistry]_vars

\* The README's counter component in a page.
SpecCounter ==
  Init({TRUE}, {0}, {<<>>}, EmptyMap) /\ [][NextCounter]_vars

\* The same page under fair scheduling: init() runs to its end, and the
\* MutationObserver delivers the records it has queued.  The two
\* conditions are WF_vars(InitObserve) and WF_vars(HandleMutations) with
\* ENABLED written out: InitObserve can take a step exactly when init has
\* not run, HandleMutations exactly when a record is queued.
SpecLive ==
  /\ Init({TRUE}, {0}, {<<>>}, EmptyMap)
  /\ [][NextLive]_vars
  /\ ([]<>initDone \/ []<><<InitObserve>>_vars)
  /\ ([]<>(records = <<>>) \/ []<><<HandleMutations>>_vars)

\* One cell.
SpecCell ==
  Init({TRUE}, Vals, {<<>>}, EmptyMap) /\ [][NextCell]_vars

\* One store, under every middleware chain.
SpecStore ==
  Init({TRUE}, {0}, Chains, EmptyMap) /\ [][NextStore]_vars

\* One store, without middlewares and with those of components.js.
SpecRounds ==
  Init({TRUE}, {0}, {<<>>, <<"logger", "persist">>}, EmptyMap)
    /\ [][NextRounds]_vars

\* One store whose chain is empty or made of loggerMiddleware only, with
\* subscribers that unsubscribe during a round.
SpecVariant ==
  Init({TRUE}, {0}, SeqsUpTo({"logger"}, MaxChain), EmptyMap)
    /\ [][NextRounds]_vars

\* One cell and one store, without middlewares and with loggerMiddleware,
\* whose listeners assign the cell and call setState.
SpecReentrant ==
  Init({TRUE}, {0}, {<<>>, <<"logger">>}, EmptyMap)
    /\ [][NextReentrant]_vars

\* The registry with a component that writes an element of a registered
\* tag.
SpecNested ==
  Init({TRUE}, {0}, {<<>>}, EmptyMap) /\ [][NextNested]_vars

\* The contact page of components.js.
SpecPage ==
  Init({TRUE}, {0}, {<<>>}, EmptyMap) /\ [][NextPage]_vars

\* One cell and one store, and the functions their subscribe returned.
SpecUnsubscribe ==
  Init({TRUE}, {0}, {<<>>}, EmptyMap) /\ [][NextUnsubscribe]_vars

\* One store and the snapshots its readers keep.
SpecSnapshot ==
  Init({TRUE}, {0}, {<<>>, <<"logger", "persist">>}, EmptyMap)
    /\ [][NextSnapshot]_vars

\* The store of components.js and its actions.
SpecDemo ==
  Init({TRUE}, {0}, {<<"logger", "persist">>}, StoreInitial)
    /\ [][NextDemo]_vars

\* The store of components.js, persisted and loaded again.
SpecPersist ==
  Init({TRUE}, {0}, PersistChains, StoreInitial) /\ [][NextPersist]_vars

\* ---------------------------------------------------------- cell: claims
CellCallsOf(l, r) ==
  {i \in 1..Len(cellCalls) : cellCalls[i].l = l /\ cellCalls[i].round = r}

\* No listener of the round does anything to the cell except, at most,
\* unsubscribe itself.
CellObservers(round) ==
  \A l \in round.start : round.kinds[l].kind \in {"plain", "unsubSelf"}

\* C2: assigning a value strictly equal to the current one calls no listener
\* and leaves the value; assigning another value calls every listener
\* subscribed at that time exactly once, with the new value (for listeners
\* that do not themselves assign the cell or unsubscribe other listeners).
C2_CellNotification ==
  cellOp = "assign" =>
    IF cellArg = cellPrev
    THEN cellCalls = <<>> /\ cellRounds = <<>> /\ cellValue = cellPrev
    ELSE /\ cellValue = cellArg \/ ~CellObservers(cellRounds[1])
         /\ Len(cellRounds) >= 1
         /\ CellObservers(cellRounds[1]) =>
              /\ Len(cellRounds) = 1
              /\ \A l \in cellRounds[1].start :
                   /\ Cardinality(CellCallsOf(l, 1)) = 1
                   /\ \A i \in CellCallsOf(l, 1) : cellCalls[i].arg = cellArg
              /\ Len(cellCalls) = Cardinality(cellRounds[1].start)

\* C2 witnesses: a changing assignment notified two listeners, and an
\* assignment of the current value was made with listeners subscribed.
C2_Witness ==
  /\ cellOp = "assign"
  /\ cellArg # cellPrev
  /\ Cardinality(cellRounds[1].start) >= 2
  /\ CellObservers(cellRounds[1])
  /\ Len(cellCalls) >= 2

C2_WitnessEqual ==
  /\ cellOp = "assign"
  /\ cellArg = cellPrev
  /\ cellListeners # <<>>

\* C11 (as claimed): whichever listeners are unsubscribed while a round is
\* in progress, by themselves or by another listener of the cell, every
\* listener subscribed when the round started is called in that round.
C11_UnsubscribeDuringRound ==
  cellOp = "assign" =>
    \A r \in 1..Len(cellRounds) :
      \A l \in cellRounds[r].start : CellCallsOf(l, r) # {}

\* --------------------------------------------------------- store: claims
HasThrow == \E i \in 1..Len(middlewares) : middlewares[i] = "throw"
\* The chain only passes the caller's patch on (logger, persist).
PassesOn == \A i \in 1..Len(middlewares) : middlewares[i] \in {"logger", "persist"}

\* C4: with the middlewares [A, B], setState({n: 1}) on the empty state
\* commits {n: 2, m: 1}; the order of the list is the order of application
\* (with [B, A], A no longer sees the patch {n: 1} and {n: 1, m: 1} is
\* committed).
C4_MiddlewareOrder ==
  (storeHist.op = "setState" /\ storeHist.prev = EmptyMap
                             /\ storeHist.patch = [n |-> Num(1)]) =>
    /\ middlewares = <<"A", "B">> => storeState = [n |-> Num(2), m |-> Num(1)]
    /\ middlewares = <<"B", "A">> => storeState = [n |-> Num(1), m |-> Num(1)]

\* C4 witness: that update was made under [A, B].
C4_Witness ==
  /\ storeHist.op = "setState"
  /\ middlewares = <<"A", "B">>
  /\ storeHist.prev = EmptyMap
  /\ storeHist.patch = [n |-> Num(1)]
  /\ storeState = [n |-> Num(2), m |-> Num(1)]

\* C5: a committed update has, at every key of the patch, exactly the
\* patch's value (nested mappings included) and, at every other key, the
\* previous value; the patch is the caller's under logger and persist.
C5_ShallowMerge ==
  (storeHist.op = "setState" /\ ~storeHist.threw) =>
    /\ DOMAIN storeState = DOMAIN storeHist.prev \cup DOMAIN storeHist.final
    /\ \A k \in DOMAIN storeHist.final : storeState[k] = storeHist.final[k]
    /\ \A k \in DOMAIN storeHist.prev \ DOMAIN storeHist.final :
         storeState[k] = storeHist.prev[k]
    /\ PassesOn => storeHist.final = storeHist.patch

\* C5 witness: setState({a: {y: 2}}) on a state with a = {x: 1} and a key n
\* left a = {y: 2} and n as it was.
C5_Witness ==
  /\ storeHist.op = "setState"
  /\ PassesOn
  /\ DOMAIN storeHist.prev = {"a", "n"}
  /\ storeHist.prev.a = [x |-> 1]
  /\ storeHist.patch = [a |-> [y |-> 2]]
  /\ storeState = [a |-> [y |-> 2], n |-> storeHist.prev.n]

\* C12: when a newly created store is hydrated with setState(JSON.parse(item))
\* from the item that persistMiddleware wrote for an earlier store, it has,
\* at every key of the item, the value the earlier store had committed; so
\* count is 3 after the earlier store committed {count: 3}.
C12_PersistRoundTrip ==
  storeHist.op = "hydrate" =>
    /\ \A k \in DOMAIN storeHist.patch :
         /\ k \in DOMAIN storeState /\ k \in DOMAIN storeHist.prev
         /\ storeState[k] = storeHist.prev[k]
    /\ storeHist.prev.count = Num(3) => storeState.count = Num(3)

\* C12 witness: the earlier store had committed count = 3 and another key,
\* and the hydrated store has both.
C12_Witness ==
  /\ storeHist.op = "hydrate"
  /\ storeHist.prev.count = Num(3)
  /\ storeState.count = Num(3)
  /\ "n" \in DOMAIN storeState
  /\ storeState # StoreInitial

\* C17: a snapshot obtained from getState() or received by a listener keeps
\* the keys and values it had when it was obtained, whatever setState calls
\* follow, and every commit makes the store's state a new object: none of
\* the snapshots held before the commit is the state object after it.
C17_SnapshotsImmutable ==
  /\ [](\A s \in held : heap[s.ref] = s.seen)
  /\ [](heap[0] = storeState)
  /\ [][(storeHist'.op = "setState" /\ ~storeHist'.threw) =>
          \A s \in held' : s.ref # 0]_vars

\* C17 witness: a reader holds a snapshot with a = {x: 1} while the store
\* has committed a = {y: 2} since.
C17_Witness ==
  /\ storeHist.op = "setState"
  /\ "a" \in DOMAIN storeState
  /\ storeState.a = [y |-> 2]
  /\ \E s \in held : s.ref # 0 /\ "a" \in DOMAIN s.seen /\ s.seen.a = [x |-> 1]

\* C6 (as claimed): when a middleware returned null, the committed state
\* after the call does not contain the patch of the call.
C6_NullDefersUpdate ==
  (storeHist.op = "setState" /\ storeHist.nulls /\ ~storeHist.threw) =>
    \E k \in DOMAIN storeHist.patch :
      k \notin DOMAIN storeState \/ storeState[k] # storeHist.patch[k]

\* C7 (as claimed): once the deferred setState of a middleware context has
\* run, the committed state contains its patch {data: 1} and the
\* subscribers have been notified.
C7_DeferredApplies ==
  storeHist.op = "deferred" =>
    /\ "data" \in DOMAIN storeState
    /\ storeState.data = Num(1)
    /\ storeListeners # <<>> => storeHist.calls # <<>>

\* C8 (as claimed): a setState whose chain has a throwing middleware
\* returns normally, with the update committed and notified.
C8_FaultIsolated ==
  (storeHist.op = "setState" /\ HasThrow) =>
    /\ ~storeHist.threw
    /\ Len(storeHist.rounds) = 1
    /\ DOMAIN storeHist.prev \subseteq DOMAIN storeState

StoreCallsOf(l, r) ==
  {i \in 1..Len(storeHist.calls) :
     storeHist.calls[i].l = l /\ storeHist.calls[i].round = r}

\* The listeners of the round do nothing to the store except that at least
\* one unsubscribes itself.
SelfUnsubscribing(round) ==
  /\ \A l \in round.start : round.kinds[l].kind \in {"plain", "unsubSelf"}
  /\ \E l \in round.start : round.kinds[l].kind = "unsubSelf"

\* C10: when listeners unsubscribe themselves in their own callback during
\* a setState round, nothing is thrown, every listener subscribed at the
\* start of the round is called exactly once in it, and exactly the
\* self-unsubscribing ones are gone afterwards.
C10_SelfUnsubscribe ==
  (storeHist.op = "setState" /\ storeHist.rounds # <<>>
     /\ SelfUnsubscribing(storeHist.rounds[1])) =>
    LET round == storeHist.rounds[1]
    IN /\ ~storeHist.threw
       /\ \A l \in round.start : Cardinality(StoreCallsOf(l, 1)) = 1
       /\ Len(storeHist.calls) = Cardinality(round.start)
       /\ SetMembers(storeListeners) =
            {l \in round.start : round.kinds[l].kind = "plain"}

\* C10 witness: the first of two listeners unsubscribed itself and the
\* second, a plain one, was still called in the same round.
C10_Witness ==
  /\ storeHist.op = "setState"
  /\ Len(storeHist.calls) = 2
  /\ storeHist.rounds[1].kinds[storeHist.calls[1].l].kind = "unsubSelf"
  /\ storeHist.rounds[1].kinds[storeHist.calls[2].l].kind = "plain"
  /\ SetMembers(storeListeners) = {storeHist.calls[2].l}

\* C18: for the cell and for the store alike, a listener whose unsubscribe
\* function has been called is called by no later change, every listener
\* still subscribed is called by each later change, and calling an
\* unsubscribe function removes that listener only, or nothing at all when
\* it had been called before.
C18_Unsubscribed ==
  /\ [](cellOp = "assign" =>
          /\ \A i \in 1..Len(cellCalls) :
               cellRounds[cellCalls[i].round].kinds[cellCalls[i].l].kind = "plain"
          /\ cellArg # cellPrev =>
               \A l \in Listeners :
                 cellRounds[1].kinds[l].kind = "plain" => CellCallsOf(l, 1) # {})
  /\ [](storeHist.op = "setState" =>
          /\ \A i \in 1..Len(storeHist.calls) :
               storeHist.rounds[1].kinds[storeHist.calls[i].l].kind = "plain"
          /\ \A l \in Listeners :
               storeHist.rounds[1].kinds[l].kind = "plain" => StoreCallsOf(l, 1) # {})
  /\ [][cellOp' = "unsubscribe" =>
          /\ SetMembers(cellListeners') = SetMembers(cellListeners) \ {cellArg'}
          /\ cellKind[cellArg'].kind = "gone" => cellListeners' = cellListeners
          /\ cellValue' = cellValue]_vars
  /\ [][storeHist'.op = "unsubscribe" =>
          /\ SetMembers(storeListeners') =
               SetMembers(storeListeners) \ {storeHist'.who}
          /\ storeKind[storeHist'.who].kind = "gone" =>
               storeListeners' = storeListeners
          /\ storeState' = storeState]_vars

\* C18 witness: the cell and the store each have one unsubscribed listener
\* and one subscribed listener, and the last change of each called the
\* subscribed one only.
C18_Witness ==
  /\ cellOp = "assign" /\ cellArg # cellPrev
  /\ \E l \in Listeners : cellKind[l] = Gone
  /\ Len(cellCalls) = 1
  /\ storeHist.op = "setState"
  /\ \E l \in Listeners : storeKind[l] = Gone
  /\ Len(storeHist.calls) = 1

\* C19: a setState call that completes commits the shallow merge of the
\* state before the call with the patch left by the last middleware; the
\* patch the chain started from is the caller's mapping, or the caller's
\* function applied to the state before the call; what the middlewares saw
\* through getState() is not committed.
C19_CommitFromFinalPatch ==
  (storeHist.op = "setState" /\ ~storeHist.threw) =>
    /\ storeState = Merge(storeHist.prev, storeHist.final)
    /\ \E partial \in Partials :
         storeHist.patch = Resolve(partial, storeHist.prev)
    /\ middlewares = <<>> => storeHist.final = storeHist.patch

\* C19 witness: the middlewares saw a running state with a key that the
\* final patch does not have, and the committed state does not have it.
C19_Witness ==
  /\ storeHist.op = "setState"
  /\ ~storeHist.threw
  /\ storeHist.prev = EmptyMap
  /\ \E k \in DOMAIN storeHist.running : k \notin DOMAIN storeState
  /\ storeState = storeHist.final

\* C20: a setState call that completes, whether or not its patch changes a
\* value, makes one round that calls every listener subscribed at that time
\* exactly once, with the committed state (for listeners that only
\* observe).
C20_NotifyEveryCommit ==
  (storeHist.op = "setState" /\ ~storeHist.threw) =>
    /\ Len(storeHist.rounds) = 1
    /\ storeHist.rounds[1].start = SetMembers(storeListeners)
    /\ \A l \in SetMembers(storeListeners) :
         /\ Cardinality(StoreCallsOf(l, 1)) = 1
         /\ \A i \in StoreCallsOf(l, 1) : storeHist.calls[i].arg = storeState
    /\ Len(storeHist.calls) = Cardinality(SetMembers(storeListeners))

\* C20 witness: a setState call that changed no value called both
\* subscribed listeners.
C20_Witness ==
  /\ storeHist.op = "setState"
  /\ storeState = storeHist.prev
  /\ storeState # EmptyMap
  /\ Len(storeHist.calls) = 2

\* C21: within one setState call the middlewares are called in list
\* order; when one returns a patch, the next is given that patch as
\* nextState and reads from getState() the running state with the patch
\* merged in; when one returns nothing (and has not called the setState of
\* its context), the next is given the same nextState and reads the same
\* running state.
C21_ChainCarriesForward ==
  storeHist.op = "setState" =>
    LET trace == storeHist.trace
    IN /\ Len(trace) <= Len(middlewares)
       /\ ~storeHist.threw => Len(trace) = Len(middlewares)
       /\ \A i \in 1..Len(trace) : trace[i].kind = middlewares[i]
       /\ Len(trace) >= 1 =>
            /\ trace[1].nextState = storeHist.patch
            /\ trace[1].getState = storeHist.prev
       /\ \A i \in 1..Len(trace) - 1 :
            IF trace[i].result # NoItem
            THEN /\ trace[i + 1].nextState = trace[i].result
                 /\ trace[i + 1].getState =
                      Merge(trace[i].getState, trace[i].result)
            ELSE ~trace[i].ctx =>
                   /\ trace[i + 1].nextState = trace[i].nextState
                   /\ trace[i + 1].getState = trace[i].getState

\* C21 witnesses: under [A, B], B was given the patch {n: 2} that A
\* returned and read it from getState(); under [async, logger], logger was
\* given what async, which returned null, had been given.
C21_Witness ==
  /\ storeHist.op = "setState"
  /\ middlewares = <<"A", "B">>
  /\ storeHist.patch = [n |-> Num(1)]
  /\ storeHist.trace[2].nextState = [n |-> Num(2)]
  /\ "n" \in DOMAIN storeHist.trace[2].getState
  /\ storeHist.trace[2].getState.n = Num(2)

C21_WitnessNothing ==
  /\ storeHist.op = "setState"
  /\ middlewares = <<"async", "logger">>
  /\ storeHist.nulls
  /\ storeHist.trace[2].nextState = storeHist.patch
  /\ storeHist.trace[2].getState = storeHist.prev

\* C22 (as claimed): a middleware that calls the setState of its context
\* and returns nothing changes the running state only: the next middleware
\* is given the same nextState, and when no middleware of the chain returns
\* a patch the caller's patch is the one committed.
C22_ContextSetStateKeepsPatch ==
  (storeHist.op = "setState" /\ ~storeHist.threw) =>
    LET trace == storeHist.trace
    IN /\ \A i \in 1..Len(trace) - 1 :
            (trace[i].ctx /\ trace[i].result = NoItem) =>
              trace[i + 1].nextState = trace[i].nextState
       /\ ((\E i \in 1..Len(trace) : trace[i].ctx)
             /\ \A i \in 1..Len(trace) : trace[i].result = NoItem) =>
            /\ storeHist.final = storeHist.patch
            /\ storeState = Merge(storeHist.prev, storeHist.patch)

\* C23 (as claimed): when the middleware list contains persistMiddleware,
\* wherever it stands in the list, the item stored after a setState call
\* is the serialization of the committed state.
C23_PersistedIsCommitted ==
  (storeHist.op = "setState"
     /\ \E i \in 1..Len(middlewares) : middlewares[i] = "persist") =>
    persisted = JsonStringify(storeState)

\* Every element of the document with a registered tag has been rendered
\* and is marked, no mutation record awaits delivery, and a scan would
\* render nothing.
Quiescent ==
  /\ initDone
  /\ records = <<>>
  /\ \A n \in Nodes :
       (InDoc(place, n) /\ MapHas(components, tagOf[n])) =>
         n \in rendered /\ log[n] # <<>>
  /\ ScanComponents(Dom, components).renders = <<0>>

\* C24: when the observer's batches are delivered, the page is quiescent
\* again and again, whatever page renders, insertions, removals and clicks
\* are made: each of them is followed by a state in which every element
\* with a registered tag is rendered and marked and nothing is pending; and
\* a scan made in a quiescent state renders nothing and leaves it quiescent.
C24_EventuallyQuiescent ==
  /\ []<>Quiescent
  /\ [][(Quiescent /\ lastOp' = "scan") =>
          (Quiescent' /\ scanRenders' = <<0>> /\ log' = log)]_vars

\* C24 witness: a quiescent state after a page render and a click, with a
\* rendered and marked element in the document.
C24_Witness ==
  /\ Quiescent
  /\ pages >= 1
  /\ \E n \in Nodes : InDoc(place, n) /\ n \in rendered /\ clicks[n] >= 1

\* C25: in the store of components.js, increment adds one to count,
\* decrement subtracts one, updateMessage makes message its argument, and
\* each leaves the other key as it was; so after any sequence of them count
\* is the initial count plus the increments minus the decrements and
\* message is the argument of the last updateMessage.
C25_DemoActions ==
  [][/\ DOMAIN storeState' = {"count", "message"}
     /\ storeHist'.op = "increment" =>
          /\ storeState'.count = Num(storeState.count.num + 1)
          /\ storeState'.message = storeState.message
     /\ storeHist'.op = "decrement" =>
          /\ storeState'.count = Num(storeState.count.num - 1)
          /\ storeState'.message = storeState.message
     /\ storeHist'.op = "updateMessage" =>
          /\ storeState'.message = storeHist'.patch.message
          /\ storeState'.count = storeState.count]_vars

\* C25 witness: after increments, a decrement and an updateMessage("b"), the
\* last action was an increment to count = 2 and message is still "b".
C25_Witness ==
  /\ storeHist.op = "increment"
  /\ storeState = [count |-> Num(2), message |-> Str("b")]
  /\ storeHist.prev = [count |-> Num(1), message |-> Str("b")]

\* The chains made of loggerMiddleware only, the empty chain among them.
LoggerChains == SeqsUpTo({"logger"}, MaxChain)

\* C26: with an empty middleware list, or with loggerMiddleware only, a
\* setState call on the store does what the same call does on the
\* createStore without middlewares that has the same state and the same
\* listeners: it commits the same state, makes the same notifications
\* with the same arguments in the same order, and leaves the same
\* listeners subscribed.
C26_RefinesVariant ==
  [][(storeHist'.op = "setState" /\ middlewares \in LoggerChains) =>
       \A partial \in Partials :
         Resolve(partial, storeState) = storeHist'.patch =>
           LET v == VariantSetState(Store, partial)
           IN /\ storeState' = v.state
              /\ storeHist'.calls = v.calls
              /\ storeListeners' = SetCompact(v.listeners)]_vars

\* C26 witness: under the chain [logger, logger] a setState call changed
\* the state and notified two listeners, one of which unsubscribed the
\* other or itself.
C26_Witness ==
  /\ storeHist.op = "setState"
  /\ middlewares = <<"logger", "logger">>
  /\ storeState # storeHist.prev
  /\ Len(storeHist.calls) >= 1
  /\ Len(storeHist.rounds) = 1
  /\ Cardinality(storeHist.rounds[1].start) = 2
  /\ Cardinality(SetMembers(storeListeners)) = 1

\* C27: a listener is never called with a stale value: the argument of
\* every call of a store listener is what getState() returns when the
\* listener is entered, and the argument of every call of a cell listener
\* is the value of the cell then, also in a round during which a listener
\* has called setState or assigned the cell.
C27_NoStaleArgument ==
  /\ \A i \in 1..Len(storeHist.calls) :
       storeHist.calls[i].arg = storeHist.calls[i].now
  /\ \A i \in 1..Len(cellCalls) : cellCalls[i].arg = cellCalls[i].now

\* C27 witness: a store round and a cell round in each of which a listener
\* started a second round, and a listener of the first round was called
\* after it, with a value other than the one the first round set.
C27_Witness ==
  /\ \E i, j \in 1..Len(storeHist.calls) :
       /\ i < j
       /\ storeHist.calls[i].round = 2
       /\ storeHist.calls[j].round = 1
       /\ storeHist.calls[j].arg # storeHist.rounds[1].new
  /\ \E i, j \in 1..Len(cellCalls) :
       /\ i < j
       /\ cellCalls[i].round = 2
       /\ cellCalls[j].round = 1
       /\ cellCalls[j].arg # cellRounds[1].new

\* C28: when a middleware throws during a setState call, the committed
\* state of the store is what it was before the call and no subscriber is
\* called for that call.
C28_ThrowCommitsNothing ==
  (storeHist.op = "setState" /\ storeHist.threw) =>
    /\ storeState = storeHist.prev
    /\ storeHist.calls = <<>>
    /\ storeHist.rounds = <<>>

\* C28 witness: a setState call whose second middleware threw, made with
\* a subscriber and with a patch that would have changed the state.
C28_Witness ==
  /\ storeHist.op = "setState"
  /\ storeHist.threw
  /\ Len(storeHist.trace) = 2
  /\ SetMembers(storeListeners) # {}
  /\ Merge(storeHist.prev, storeHist.final) # storeHist.prev

\* C29 (as claimed): when a scanComponents call has returned, every
\* element of the document whose tag is registered has been rendered and
\* is marked rendered, the elements that renders of that scan inserted
\* included, whatever the order in which the tags were registered.
C29_ScanIsComplete ==
  EndedWithScan =>
    \A n \in Nodes :
      (InDoc(place, n) /\ MapHas(components, tagOf[n])) =>
        n \in rendered /\ log[n] # <<>>

\* C30 (as claimed): every language-change subscriber and every store
\* subscriber that the render of a component registered belongs to a node
\* that is in the document; the subscriptions of the child elements that
\* a re-render of their parent replaced are not kept.
C30_SubscribersAreLive ==
  /\ \A i \in 1..Len(subscribers.lang) :
       IF subscribers.lang[i] = 0 THEN appExists
       ELSE InDoc(place, subscribers.lang[i])
  /\ \A i \in 1..Len(subscribers.store) :
       IF subscribers.store[i] = 0 THEN appExists
       ELSE InDoc(place, subscribers.store[i])

====
